---- MODULE Spec2Model ----
(***************************************************************************)
(* Model of convolution.cc (latest revision, src/unnamed/part_001:1-319):  *)
(* command-line checking, matrix ingestion, the row partitioning done by   *)
(* GetMatrixWork and the per-thread dispatch CalculateFilter that main     *)
(* runs in a sequential loop.                                              *)
(*                                                                         *)
(* Three specifications share the variables:                                 *)
(*   Spec      one run of main, from argv and a file on disk to exit;      *)
(*   SpecWork  GetMatrixWork called as a function on arbitrary             *)
(*             (matrixDim, numT, tid), including tid >= numT;              *)
(*   SpecPar   the numT CalculateFilter calls of the dispatch loop run as  *)
(*             concurrent workers on a loaded matrix.                      *)
(***************************************************************************)
EXTENDS Integers, Sequences, FiniteSets, TLC

\* ------------------------------------------------------------------ bounds
\* largest file size in bytes (40 bytes: up to a 3x3 matrix plus slack)
MaxFileSize == 40
\* largest argc
MaxArgc == 5
\* largest matrix dimension / thread count / thread id given to GetMatrixWork
\* when it is exercised as a function (SpecWork)
MaxDim == 10
MaxT == 7
MaxTid == 11
\* largest number of GetMatrixWork calls one caller makes (SpecWork)
MaxCalls == 3
\* largest matrix dimension and thread count of the parallel dispatch (SpecPar)
MaxParDim == 4
MaxParT == 4

\* --------------------------------------------------------------- constants
\* EXIT_FAILURE of <stdlib.h>, the status of exit(EXIT_FAILURE) and exit(1)
EXIT_FAILURE == 1
\* number of bytes of one matrix element ("dimension = size / 4")
IntBytes == 4
\* the "no work" value GetMatrixWork stores in start and end
Sentinel == -1

VARIABLES
    argc,            \* main's argc
    argv,            \* argv[1..argc-1], each a sequence of characters
    fileExists,      \* whether the matrix file can be opened
    fileSize,        \* its size in bytes
    fileBase,        \* its contents: element k (0-based) is fileBase + k
    pc,              \* position of main (or of the GetMatrixWork harness)
    exitStatus,      \* the process's exit status, -1 while it runs
    filterDepth,     \* main's locals
    numThreads,
    matrixDimension,
    matrix,          \* row index 0..N-1 -> column index 0..N-1 -> value
    rowState,        \* row index -> "live" | "freed" (new[] / delete[])
    i,               \* main's loop variable; the tid of the last call
    start,           \* the out-parameters of the last GetMatrixWork call
    end,
    output,          \* what was written to standard output, in order
    calls,           \* the CalculateFilter calls made, in order
    workers          \* tid -> a worker running CalculateFilter (SpecPar)

vars == <<argc, argv, fileExists, fileSize, fileBase, pc, exitStatus,
          filterDepth, numThreads, matrixDimension, matrix, rowState,
          i, start, end, output, calls, workers>>

\* ------------------------------------------------------------ output model
\* one line (or block) of standard output
Ev(kind, tid, numT, row, vals) ==
    [kind |-> kind, tid |-> tid, numT |-> numT, row |-> row, vals |-> vals]

Msg(kind) == Ev(kind, -1, -1, -1, <<>>)

\* ------------------------------------------------------------------- atoi
IsDigit(c) == c \in {"0", "1", "2", "3", "4", "5", "6", "7", "8", "9"}

DigitVal(c) ==
    CASE c = "0" -> 0 [] c = "1" -> 1 [] c = "2" -> 2 [] c = "3" -> 3
      [] c = "4" -> 4 [] c = "5" -> 5 [] c = "6" -> 6 [] c = "7" -> 7
      [] c = "8" -> 8 [] c = "9" -> 9

RECURSIVE SkipSpace(_)
SkipSpace(s) ==
    IF s # <<>> /\ Head(s) = " " THEN SkipSpace(Tail(s)) ELSE s

RECURSIVE ParseDigits(_, _)
ParseDigits(s, acc) ==
    IF s # <<>> /\ IsDigit(Head(s))
    THEN ParseDigits(Tail(s), acc * 10 + DigitVal(Head(s)))
    ELSE acc

\* atoi(3): leading blanks, an optional sign, then digits up to the first
\* character that is not a digit; 0 when there are no digits
Atoi(s) ==
    LET t == SkipSpace(s) IN
    IF t # <<>> /\ Head(t) = "-" THEN 0 - ParseDigits(Tail(t), 0)
    ELSE IF t # <<>> /\ Head(t) = "+" THEN ParseDigits(Tail(t), 0)
    ELSE ParseDigits(t, 0)

\* the argument strings main is run with for depth and numThreads
ArgStrings ==
    { <<>>, <<"0">>, <<"1">>, <<"2">>, <<"3">>, <<"4">>, <<"-", "1">>,
      <<"x">>, <<"2", "x">>, <<"+", "2">>, <<" ", "1">> }

FileName == <<"m">>

\* argv[1..argc-1] for a given argc: file name, depth, numThreads, extras
ArgVectors(n) ==
    IF n = 1 THEN { <<>> }
    ELSE IF n = 2 THEN { <<FileName>> }
    ELSE IF n = 3 THEN { <<FileName, d>> : d \in ArgStrings }
    ELSE { <<FileName, d, t>> \o [k \in 1..(n - 4) |-> <<>>] :
             d \in ArgStrings, t \in ArgStrings }

\* the contents a matrix file starts with
FileBases == {0, 100}

\* --------------------------------------------------------- pure functions
ISqrt_roundUp(n) == CHOOSE r \in 0..n : r * r >= n /\ (r = 0 \/ (r - 1) * (r - 1) < n)

\* (int) sqrt(dimension): the largest r with r*r <= n (the double sqrt of an
\* int is exact enough that truncating it gives the floor of the root)
ISqrt(n) == CHOOSE r \in 0..n : r * r <= n /\ (r + 1) * (r + 1) > n

\* get_row(fd, matDim, row, buf) of matrix.h: row `row` (1-based) of the
\* file, matDim elements starting at element (row-1)*matDim
get_row(base, matDim, row) ==
    [c \in 0..(matDim - 1) |-> base + (row - 1) * matDim + c]

GetMatrixWork_noRemainder(matrixDim, numT, tid) ==
    LET workload == IF numT >= matrixDim THEN 1 ELSE matrixDim \div numT
        s == workload * tid
        e == workload * (tid + 1)
    IN  IF tid >= matrixDim THEN [start |-> Sentinel, end |-> Sentinel]
        ELSE [start |-> s, end |-> e]

GetMatrixWork_remainderFirst(matrixDim, numT, tid) ==
    LET remainder == IF numT >= matrixDim THEN 0 ELSE matrixDim % numT
        workload == IF numT >= matrixDim THEN 1 ELSE matrixDim \div numT
        s == IF tid = 0 THEN 0 ELSE workload * tid + remainder
        e == workload * (tid + 1) + remainder
    IN  IF tid >= matrixDim THEN [start |-> Sentinel, end |-> Sentinel]
        ELSE [start |-> s, end |-> e]

GetMatrixWork_sentinelOffByOne(matrixDim, numT, tid) ==
    LET remainder == IF numT >= matrixDim THEN 0 ELSE matrixDim % numT
        workload == IF numT >= matrixDim THEN 1 ELSE matrixDim \div numT
        s == workload * tid
        e0 == workload * (tid + 1)
        e == IF tid = numT - 1 THEN e0 + remainder ELSE e0
    IN  IF tid > matrixDim THEN [start |-> Sentinel, end |-> Sentinel]
        ELSE [start |-> s, end |-> e]

GetMatrixWork_ceil(matrixDim, numT, tid) ==
    LET remainder == IF numT >= matrixDim THEN 0 ELSE matrixDim % numT
        workload == IF numT >= matrixDim THEN 1
                    ELSE (matrixDim + numT - 1) \div numT
        s == workload * tid
        e0 == workload * (tid + 1)
        e == IF tid = numT - 1 THEN e0 + remainder ELSE e0
    IN  IF tid >= matrixDim THEN [start |-> Sentinel, end |-> Sentinel]
        ELSE [start |-> s, end |-> e]

GetMatrixWork_roundRobin(matrixDim, numT, tid) ==
    LET remainder == IF numT >= matrixDim THEN 0 ELSE matrixDim % numT
        workload == IF numT >= matrixDim THEN 1 ELSE matrixDim \div numT
        extra(t) == IF t < remainder THEN t ELSE remainder
        s == workload * tid + extra(tid)
        e == workload * (tid + 1) + extra(tid + 1)
    IN  IF tid >= matrixDim THEN [start |-> Sentinel, end |-> Sentinel]
        ELSE [start |-> s, end |-> e]

GetMatrixWork_remainderEveryThread(matrixDim, numT, tid) ==
    LET remainder == IF numT >= matrixDim THEN 0 ELSE matrixDim % numT
        workload == IF numT >= matrixDim THEN 1 ELSE matrixDim \div numT
        s == workload * tid
        e == workload * (tid + 1) + remainder
    IN  IF tid >= matrixDim THEN [start |-> Sentinel, end |-> Sentinel]
        ELSE [start |-> s, end |-> e]

\* GetMatrixWork(matrixDim, numT, tid, &start, &end), for numT >= 1 (main
\* never calls it otherwise; numT = 0 < matrixDim would divide by zero).
\* floor(matrixDim / numT) is C's int division of non-negative operands.
GetMatrixWork(matrixDim, numT, tid) ==
    LET remainder == IF numT >= matrixDim THEN 0 ELSE matrixDim % numT
        workload == IF numT >= matrixDim THEN 1 ELSE matrixDim \div numT
        s == workload * tid
        e0 == workload * (tid + 1)
        e == IF tid = numT - 1 THEN e0 + remainder ELSE e0
    IN  IF tid >= matrixDim THEN [start |-> Sentinel, end |-> Sentinel]
        ELSE [start |-> s, end |-> e]

\* the lines "for (row = from; row < to; row++)" prints: one per row, the
\* row's matDim values in column order
RECURSIVE RowLines(_, _, _, _)
RowLines(m, matDim, from, to) ==
    IF from >= to THEN <<>>
    ELSE <<Ev("row", -1, -1, from, [c \in 1..matDim |-> m[from][c - 1]])>>
         \o RowLines(m, matDim, from + 1, to)

CalculateFilter_noSentinelCheck(m, matrixDim, numT, tid) ==
    LET w == GetMatrixWork(matrixDim, numT, tid) IN
    <<Ev("header", tid, numT, -1, <<>>)>>
    \o RowLines(m, matrixDim, w.start, w.end)

RECURSIVE RowLinesDown(_, _, _, _)
RowLinesDown(m, matDim, from, to) ==
    IF from >= to THEN <<>>
    ELSE <<Ev("row", -1, -1, to - 1, [c \in 1..matDim |-> m[to - 1][c - 1]])>>
         \o RowLinesDown(m, matDim, from, to - 1)

CalculateFilter_descending(m, matrixDim, numT, tid) ==
    LET w == GetMatrixWork(matrixDim, numT, tid) IN
    IF w.start = -1 /\ w.end = -1 THEN <<>>
    ELSE <<Ev("header", tid, numT, -1, <<>>)>>
         \o RowLinesDown(m, matrixDim, w.start, w.end)

\* what one call CalculateFilter(matrix, matrixDim, numT, tid) prints
CalculateFilter(m, matrixDim, numT, tid) ==
    LET w == GetMatrixWork(matrixDim, numT, tid) IN
    IF w.start = -1 /\ w.end = -1 THEN <<>>
    ELSE <<Ev("header", tid, numT, -1, <<>>)>>
         \o RowLines(m, matrixDim, w.start, w.end)

\* what PrettyPrintMatrix(matrix, matrixDim) prints
PrettyPrintMatrix(m, matrixDim) == RowLines(m, matrixDim, 0, matrixDim)

\* ------------------------------------------------------------------- main
Init ==
    /\ argc \in 1..MaxArgc
    /\ argv \in ArgVectors(argc)
    /\ fileExists \in BOOLEAN
    /\ fileSize \in (IF fileExists THEN 0..MaxFileSize ELSE {0})
    /\ fileBase \in (IF fileExists THEN FileBases ELSE {0})
    /\ pc = "ProcessArguments"
    /\ exitStatus = -1
    /\ filterDepth = 0
    /\ numThreads = 0
    /\ matrixDimension = 0
    /\ matrix = <<>>
    /\ rowState = <<>>
    /\ i = 0
    /\ start = 0
    /\ end = 0
    /\ output = <<>>
    /\ calls = <<>>
    /\ workers = <<>>

\* exit(status) from inside a function of main
Exit(status, lines) ==
    /\ pc' = "exited"
    /\ exitStatus' = status
    /\ output' = output \o lines
    /\ UNCHANGED <<workers, argc, argv, fileExists, fileSize, fileBase, filterDepth,
                   numThreads, matrixDimension, matrix, rowState, i, start,
                   end, calls>>

\* ProcessArguments: fewer than three arguments
ProcessArgumentsTooFew ==
    /\ pc = "ProcessArguments"
    /\ argc < 4
    /\ Exit(EXIT_FAILURE, <<Msg("error"), Msg("usage")>>)

\* ProcessArguments: atoi of depth or of numThreads is 0
ProcessArgumentsBadValue ==
    /\ pc = "ProcessArguments"
    /\ argc >= 4
    /\ (Atoi(argv[2]) = 0 \/ Atoi(argv[3]) = 0)
    /\ Exit(EXIT_FAILURE, <<Msg("error"), Msg("usage")>>)

\* ProcessArguments accepts; main prints the "file: .. depth: .. threads: .."
\* line
ProcessArgumentsOk ==
    /\ pc = "ProcessArguments"
    /\ argc >= 4
    /\ ~(Atoi(argv[2]) = 0 \/ Atoi(argv[3]) = 0)
    /\ filterDepth' = Atoi(argv[2])
    /\ numThreads' = Atoi(argv[3])
    /\ output' = output \o <<Msg("banner")>>
    /\ pc' = "GetMatrixDimension"
    /\ UNCHANGED <<workers, argc, argv, fileExists, fileSize, fileBase, exitStatus,
                   matrixDimension, matrix, rowState, i, start, end, calls>>

\* GetMatrixDimension: fopen fails
GetMatrixDimensionNoFile ==
    /\ pc = "GetMatrixDimension"
    /\ ~fileExists
    /\ Exit(1, <<Msg("error")>>)

\* GetMatrixDimension: fseek or ftell fails on the opened file
GetMatrixDimensionSeekError ==
    /\ pc = "GetMatrixDimension"
    /\ fileExists
    /\ Exit(1, <<Msg("error")>>)

\* GetMatrixDimension returns sqrt(size / 4); main prints it
GetMatrixDimensionOk ==
    /\ pc = "GetMatrixDimension"
    /\ fileExists
    /\ matrixDimension' = ISqrt(fileSize \div IntBytes)
    /\ output' = output \o <<Msg("dimension")>>
    /\ pc' = "ReadMatrixFile"
    /\ UNCHANGED <<workers, argc, argv, fileExists, fileSize, fileBase, exitStatus,
                   filterDepth, numThreads, matrix, rowState, i, start, end,
                   calls>>

\* ReadMatrixFile: open fails
ReadMatrixFileOpenError ==
    /\ pc = "ReadMatrixFile"
    /\ Exit(1, <<Msg("reading"), Msg("error")>>)

\* ReadMatrixFile: allocates and loads rows 0..matDim-1, row i from file row
\* i+1
ReadMatrixFileOk ==
    /\ pc = "ReadMatrixFile"
    /\ matrix' = [r \in 0..(matrixDimension - 1) |->
                    get_row(fileBase, matrixDimension, r + 1)]
    /\ rowState' = [r \in 0..(matrixDimension - 1) |-> "live"]
    /\ output' = output \o <<Msg("reading")>>
    /\ i' = 0
    /\ pc' = "Dispatch"
    /\ UNCHANGED <<workers, argc, argv, fileExists, fileSize, fileBase, exitStatus,
                   filterDepth, numThreads, matrixDimension, start, end,
                   calls>>

Dispatch_inPlace ==
    /\ pc = "Dispatch"
    /\ i < numThreads
    /\ LET w == GetMatrixWork(matrixDimension, numThreads, i) IN
         /\ start' = w.start
         /\ end' = w.end
         /\ calls' = Append(calls, [matrixDim |-> matrixDimension,
                                    numT |-> numThreads, tid |-> i,
                                    start |-> w.start, end |-> w.end])
         /\ matrix' = [r \in DOMAIN matrix |->
                         IF r >= w.start /\ r < w.end
                         THEN [c \in DOMAIN matrix[r] |-> 0]
                         ELSE matrix[r]]
    /\ output' = output \o CalculateFilter(matrix, matrixDimension,
                                           numThreads, i)
    /\ i' = i + 1
    /\ UNCHANGED <<workers, argc, argv, fileExists, fileSize, fileBase, pc,
                   exitStatus, filterDepth, numThreads, matrixDimension,
                   rowState>>

Dispatch_reversed ==
    /\ pc = "Dispatch"
    /\ i < numThreads
    /\ LET tid == numThreads - 1 - i
           w == GetMatrixWork(matrixDimension, numThreads, tid) IN
         /\ start' = w.start
         /\ end' = w.end
         /\ calls' = Append(calls, [matrixDim |-> matrixDimension,
                                    numT |-> numThreads, tid |-> tid,
                                    start |-> w.start, end |-> w.end])
         /\ output' = output \o CalculateFilter(matrix, matrixDimension,
                                                numThreads, tid)
    /\ i' = i + 1
    /\ UNCHANGED <<workers, argc, argv, fileExists, fileSize, fileBase, pc,
                   exitStatus, filterDepth, numThreads, matrixDimension,
                   matrix, rowState>>

\* one iteration of main's loop: CalculateFilter(matrix, matrixDimension,
\* numThreads, i); i++
Dispatch ==
    /\ pc = "Dispatch"
    /\ i < numThreads
    /\ LET w == GetMatrixWork(matrixDimension, numThreads, i) IN
         /\ start' = w.start
         /\ end' = w.end
         /\ calls' = Append(calls, [matrixDim |-> matrixDimension,
                                    numT |-> numThreads, tid |-> i,
                                    start |-> w.start, end |-> w.end])
    /\ output' = output \o CalculateFilter(matrix, matrixDimension,
                                           numThreads, i)
    /\ i' = i + 1
    /\ UNCHANGED <<workers, argc, argv, fileExists, fileSize, fileBase, pc,
                   exitStatus, filterDepth, numThreads, matrixDimension,
                   matrix, rowState>>

\* the loop ends; "Whole Matrix" and PrettyPrintMatrix
PrintWholeMatrix ==
    /\ pc = "Dispatch"
    /\ ~(i < numThreads)
    /\ output' = output \o <<Msg("whole")>>
                        \o PrettyPrintMatrix(matrix, matrixDimension)
    /\ pc' = "CleanupMatrix"
    /\ UNCHANGED <<workers, argc, argv, fileExists, fileSize, fileBase, exitStatus,
                   filterDepth, numThreads, matrixDimension, matrix,
                   rowState, i, start, end, calls>>

CleanupMatrix_skipLast ==
    /\ pc = "CleanupMatrix"
    /\ rowState' = [r \in DOMAIN rowState |->
                      IF r >= matrixDimension - 1 THEN rowState[r]
                      ELSE IF rowState[r] = "live" THEN "freed"
                      ELSE "double-freed"]
    /\ pc' = "exited"
    /\ exitStatus' = 0
    /\ UNCHANGED <<workers, argc, argv, fileExists, fileSize, fileBase, filterDepth,
                   numThreads, matrixDimension, matrix, i, start, end,
                   output, calls>>

\* CleanupMatrix(matrix, matrixDimension): delete[] of rows 0..matrixDim-1
\* (a row that is not live any more would be freed twice); return 0
CleanupMatrix ==
    /\ pc = "CleanupMatrix"
    /\ rowState' = [r \in DOMAIN rowState |->
                      IF rowState[r] = "live" THEN "freed"
                      ELSE "double-freed"]
    /\ pc' = "exited"
    /\ exitStatus' = 0
    /\ UNCHANGED <<workers, argc, argv, fileExists, fileSize, fileBase, filterDepth,
                   numThreads, matrixDimension, matrix, i, start, end,
                   output, calls>>

Next ==
    \/ ProcessArgumentsTooFew
    \/ ProcessArgumentsBadValue
    \/ ProcessArgumentsOk
    \/ GetMatrixDimensionNoFile
    \/ GetMatrixDimensionSeekError
    \/ GetMatrixDimensionOk
    \/ ReadMatrixFileOpenError
    \/ ReadMatrixFileOk
    \/ Dispatch
    \/ PrintWholeMatrix
    \/ CleanupMatrix

Spec == Init /\ [][Next]_vars

\* ------------------------------------------- GetMatrixWork as a function
InitWork ==
    /\ matrixDimension \in 1..MaxDim
    /\ numThreads \in 1..MaxT
    /\ pc = "WorkIdle"
    /\ i = 0
    /\ start = 0
    /\ end = 0
    /\ argc = 1
    /\ argv = <<>>
    /\ fileExists = FALSE
    /\ fileSize = 0
    /\ fileBase = 0
    /\ exitStatus = -1
    /\ filterDepth = 0
    /\ matrix = <<>>
    /\ rowState = <<>>
    /\ output = <<>>
    /\ calls = <<>>
    /\ workers = <<>>

WorkCall_uninitRemainder ==
    /\ pc \in {"WorkIdle", "WorkReturned"}
    /\ Len(calls) < MaxCalls
    /\ \E tid \in 0..MaxTid, garbage \in {0, 1} :
         LET w0 == GetMatrixWork(matrixDimension, numThreads, tid)
             w == IF /\ numThreads >= matrixDimension
                     /\ tid = numThreads - 1
                     /\ tid < matrixDimension
                  THEN [start |-> w0.start, end |-> w0.end + garbage]
                  ELSE w0
         IN
           /\ i' = tid
           /\ start' = w.start
           /\ end' = w.end
           /\ calls' = Append(calls, [matrixDim |-> matrixDimension,
                                      numT |-> numThreads, tid |-> tid,
                                      start |-> w.start, end |-> w.end])
    /\ pc' = "WorkReturned"
    /\ UNCHANGED <<workers, argc, argv, fileExists, fileSize, fileBase, exitStatus,
                   filterDepth, numThreads, matrixDimension, matrix,
                   rowState, output>>

\* a caller passes any tid >= 0 and gets start and end back; the caller
\* keeps a log of the calls it made (at most MaxCalls of them)
WorkCall ==
    /\ pc \in {"WorkIdle", "WorkReturned"}
    /\ Len(calls) < MaxCalls
    /\ \E tid \in 0..MaxTid :
         LET w == GetMatrixWork(matrixDimension, numThreads, tid) IN
           /\ i' = tid
           /\ start' = w.start
           /\ end' = w.end
           /\ calls' = Append(calls, [matrixDim |-> matrixDimension,
                                      numT |-> numThreads, tid |-> tid,
                                      start |-> w.start, end |-> w.end])
    /\ pc' = "WorkReturned"
    /\ UNCHANGED <<workers, argc, argv, fileExists, fileSize, fileBase, exitStatus,
                   filterDepth, numThreads, matrixDimension, matrix,
                   rowState, output>>

NextWork == WorkCall

SpecWork == InitWork /\ [][NextWork]_vars

\* ------------------------------------- CalculateFilter as parallel workers
\* the matrix ReadMatrixFile builds from a file of matDim*matDim elements
\* that starts at value base
LoadMatrix(base, matDim) ==
    [r \in 0..(matDim - 1) |-> get_row(base, matDim, r + 1)]

\* the matrix is loaded; one worker per thread index is about to run
\* CalculateFilter(matrix, matrixDimension, numThreads, tid)
InitPar ==
    /\ matrixDimension \in 1..MaxParDim
    /\ numThreads \in 1..MaxParT
    /\ fileExists = TRUE
    /\ fileBase \in FileBases
    /\ fileSize = IntBytes * matrixDimension * matrixDimension
    /\ matrix = LoadMatrix(fileBase, matrixDimension)
    /\ rowState = [r \in 0..(matrixDimension - 1) |-> "live"]
    /\ workers = [t \in 0..(numThreads - 1) |->
                    [pc |-> "ready", start |-> 0, end |-> 0, row |-> 0]]
    /\ pc = "Parallel"
    /\ i = 0
    /\ start = 0
    /\ end = 0
    /\ argc = 4
    /\ argv = <<>>
    /\ exitStatus = -1
    /\ filterDepth = 1
    /\ output = <<>>
    /\ calls = <<>>

\* worker tid enters CalculateFilter: GetMatrixWork, the sentinel test, the
\* "Thread i of T" header and the initialisation of the row loop
WorkerStart(tid) ==
    /\ pc = "Parallel"
    /\ workers[tid].pc = "ready"
    /\ LET w == GetMatrixWork(matrixDimension, numThreads, tid)
           empty == w.start = -1 /\ w.end = -1
       IN
         /\ workers' = [workers EXCEPT ![tid] =
                          [pc |-> IF empty \/ ~(w.start < w.end)
                                  THEN "done" ELSE "rows",
                           start |-> w.start, end |-> w.end,
                           row |-> w.start]]
         /\ output' = IF empty THEN output
                      ELSE Append(output, Ev("header", tid, numThreads,
                                             -1, <<>>))
         /\ calls' = Append(calls, [matrixDim |-> matrixDimension,
                                    numT |-> numThreads, tid |-> tid,
                                    start |-> w.start, end |-> w.end])
    /\ UNCHANGED <<argc, argv, fileExists, fileSize, fileBase, pc,
                   exitStatus, filterDepth, numThreads, matrixDimension,
                   matrix, rowState, i, start, end>>

\* worker tid runs one iteration of the row loop: prints its row `row` and
\* increments it (the line carries the worker's tid to tell who printed it)
WorkerRow(tid) ==
    /\ pc = "Parallel"
    /\ workers[tid].pc = "rows"
    /\ LET me == workers[tid] IN
         /\ output' = Append(output,
                Ev("row", tid, numThreads, me.row,
                   [c \in 1..matrixDimension |-> matrix[me.row][c - 1]]))
         /\ workers' = [workers EXCEPT ![tid] =
                          [me EXCEPT !.row = me.row + 1,
                                     !.pc = IF me.row + 1 < me.end
                                            THEN "rows" ELSE "done"]]
    /\ UNCHANGED <<argc, argv, fileExists, fileSize, fileBase, pc,
                   exitStatus, filterDepth, numThreads, matrixDimension,
                   matrix, rowState, i, start, end, calls>>

NextPar ==
    \E tid \in DOMAIN workers : WorkerStart(tid) \/ WorkerRow(tid)

SpecPar == InitPar /\ [][NextPar]_vars

\* ------------------------------------------------------------- properties
\* the rows a returned pair (start, end) stands for
Rows(w) ==
    IF w.start = Sentinel /\ w.end = Sentinel THEN {}
    ELSE w.start..(w.end - 1)

\* the pair returned for tid t: the one the last call stored when t is its
\* tid, the function's value otherwise
WorkOf(t) ==
    IF pc = "WorkReturned" /\ t = i THEN [start |-> start, end |-> end]
    ELSE GetMatrixWork(matrixDimension, numThreads, t)

\* C1: for N >= 1 and T >= 1 the row ranges of tid = 0..T-1 are pairwise
\* disjoint and their union is exactly {0, ..., N-1}; the sentinel
\* contributes no rows.
C1_PartitionExact ==
    (pc = "WorkReturned" /\ i < numThreads) =>
        /\ \A t1, t2 \in 0..(numThreads - 1) :
             t1 # t2 => Rows(WorkOf(t1)) \cap Rows(WorkOf(t2)) = {}
        /\ UNION { Rows(WorkOf(t)) : t \in 0..(numThreads - 1) }
             = 0..(matrixDimension - 1)

C1_Witness ==
    /\ pc = "WorkReturned"
    /\ numThreads < matrixDimension
    /\ matrixDimension % numThreads # 0
    /\ i = numThreads - 1
    /\ numThreads >= 2

\* C2: when T < N every thread tid < T-1 gets [workload*tid,
\* workload*(tid+1)) and the last thread gets [workload*(T-1),
\* workload*T + remainder), with workload = N div T and remainder = N mod T;
\* N = 10, T = 3 gives [0,3), [3,6), [6,10).
C2_DenseRanges ==
    (pc = "WorkReturned" /\ numThreads < matrixDimension /\ i < numThreads) =>
        LET workload == matrixDimension \div numThreads
            remainder == matrixDimension % numThreads
        IN  /\ i < numThreads - 1 =>
                 start = workload * i /\ end = workload * (i + 1)
            /\ i = numThreads - 1 =>
                 /\ start = workload * (numThreads - 1)
                 /\ end = workload * numThreads + remainder
            /\ (matrixDimension = 10 /\ numThreads = 3) =>
                 <<start, end>> = <<<<0, 3>>, <<3, 6>>, <<6, 10>>>>[i + 1]

C2_Witness ==
    /\ pc = "WorkReturned"
    /\ matrixDimension = 10 /\ numThreads = 3
    /\ i = 2 /\ start = 6 /\ end = 10

\* C3: when T >= N every thread tid < N gets [tid, tid+1) and every thread
\* N <= tid < T gets the sentinel; for T = N no thread gets the sentinel.
C3_SparseRanges ==
    (pc = "WorkReturned" /\ numThreads >= matrixDimension /\ i < numThreads) =>
        /\ i < matrixDimension => start = i /\ end = i + 1
        /\ i >= matrixDimension => start = Sentinel /\ end = Sentinel
        /\ numThreads = matrixDimension =>
             ~(start = Sentinel /\ end = Sentinel)

C3_Witness ==
    /\ pc = "WorkReturned"
    /\ matrixDimension = 4 /\ numThreads = 6
    /\ i = 4 /\ start = Sentinel /\ end = Sentinel

\* C4: a non-empty range returned for tid in [0, T) satisfies
\* 0 <= start <= end <= N, so every row index of the range is in [0, N).
C4_RangeInBounds ==
    (/\ pc = "WorkReturned"
     /\ i < numThreads
     /\ ~(start = Sentinel /\ end = Sentinel)) =>
        /\ 0 <= start /\ start <= end /\ end <= matrixDimension
        /\ \A row \in start..(end - 1) : row \in 0..(matrixDimension - 1)

C4_Witness ==
    /\ pc = "WorkReturned"
    /\ numThreads < matrixDimension
    /\ i = numThreads - 1
    /\ end = matrixDimension
    /\ end - start > matrixDimension \div numThreads

\* C5: the number of rows of the range of tid in [0, T) is floor(N/T) for a
\* non-last thread when T < N, floor(N/T) + (N mod T) for the last thread
\* when T < N, 1 when T >= N and tid < N, and 0 when T >= N and tid >= N.
C5_RangeLength ==
    (pc = "WorkReturned" /\ i < numThreads) =>
        LET len == Cardinality(Rows([start |-> start, end |-> end])) IN
        /\ (numThreads < matrixDimension /\ i # numThreads - 1) =>
             len = matrixDimension \div numThreads
        /\ (numThreads < matrixDimension /\ i = numThreads - 1) =>
             len = (matrixDimension \div numThreads)
                   + (matrixDimension % numThreads)
        /\ (numThreads >= matrixDimension /\ i < matrixDimension) => len = 1
        /\ (numThreads >= matrixDimension /\ i >= matrixDimension) => len = 0

C5_Witness ==
    /\ pc = "WorkReturned"
    /\ matrixDimension = 7 /\ numThreads = 3
    /\ i = 2 /\ end - start = 3

\* a step of main that made one CalculateFilter call
IsDispatchStep == Len(calls') = Len(calls) + 1

\* C6: when GetMatrixWork yields the sentinel for a thread, CalculateFilter
\* returns at once: the call prints nothing, not even the header.
C6_EmptyRangeNoOutput ==
    [][(IsDispatchStep /\ start' = Sentinel /\ end' = Sentinel)
         => output' = output]_vars

C6_Witness ==
    /\ calls # <<>>
    /\ calls[Len(calls)].start = Sentinel
    /\ calls[Len(calls)].end = Sentinel
    /\ calls[Len(calls)].matrixDim >= 1
    /\ start = Sentinel /\ end = Sentinel

\* C7: for a non-empty range one CalculateFilter call prints the header and
\* then exactly rows start, start+1, ..., end-1, each once, in ascending
\* order, each row's N values in column order 0..N-1.
C7_RowsAscending ==
    [][(IsDispatchStep /\ ~(start' = Sentinel /\ end' = Sentinel)) =>
         /\ Len(output') = Len(output) + 1 + (end' - start')
         /\ SubSeq(output', 1, Len(output)) = output
         /\ output'[Len(output) + 1] = Ev("header", i, numThreads, -1, <<>>)
         /\ \A k \in 1..(end' - start') :
              LET ev == output'[Len(output) + 1 + k] IN
              /\ ev.kind = "row"
              /\ ev.row = start' + k - 1
              /\ Len(ev.vals) = matrixDimension
              /\ \A c \in 0..(matrixDimension - 1) :
                   ev.vals[c + 1] = matrix[start' + k - 1][c]]_vars

C7_Witness ==
    /\ calls # <<>>
    /\ calls[Len(calls)].end - calls[Len(calls)].start >= 2
    /\ matrixDimension >= 2
    /\ Len(output) >= 3
    /\ output[Len(output)].kind = "row"
    /\ output[Len(output)].row = end - 1
    /\ output[Len(output) - 1].row = end - 2

\* C8: a call of GetMatrixWork with tid >= T fails (InvalidArgument) and
\* does not return a row range.
C8_TidOutOfRangeFails ==
    ~(pc = "WorkReturned" /\ i >= numThreads)

\* an argument that is a decimal integer > 0
ValidArg(s) ==
    /\ s # <<>>
    /\ \A k \in 1..Len(s) : IsDigit(s[k])
    /\ Atoi(s) > 0

InvalidCommandLine ==
    \/ argc < 4
    \/ ~ValidArg(argv[2])
    \/ ~ValidArg(argv[3])

\* C9: whenever the command line is invalid (fewer than three arguments, or
\* a depth or thread count that is not an integer > 0) the program ends at
\* once with a non-zero status after the usage message, and neither reads
\* the matrix file nor dispatches any work.
C9_InvalidArgsRejected ==
    (pc # "ProcessArguments" /\ InvalidCommandLine) =>
        /\ pc = "exited"
        /\ exitStatus # 0
        /\ output = <<Msg("error"), Msg("usage")>>
        /\ matrix = <<>>
        /\ calls = <<>>

\* C10: every call of CalculateFilter / GetMatrixWork in a run of main has
\* matrixDim >= 1 and numT >= 1.
C10_CoreInputsValid ==
    \A k \in 1..Len(calls) :
        calls[k].matrixDim >= 1 /\ calls[k].numT >= 1

\* element k (0-based) of the matrix file
FileElem(k) == fileBase + k

\* main is past ReadMatrixFile and has not failed
MatrixLoaded ==
    \/ pc \in {"Dispatch", "CleanupMatrix"}
    \/ pc = "exited" /\ exitStatus = 0

\* the position of the "Whole Matrix" line in the output, 0 when absent
WholeIndex ==
    IF \E k \in 1..Len(output) : output[k].kind = "whole"
    THEN CHOOSE k \in 1..Len(output) : output[k].kind = "whole"
    ELSE 0

\* C11: CalculateFilter never writes to the matrix: after any number of
\* dispatches every cell holds the value ingestion gave it, and the final
\* "Whole Matrix" print shows the matrix exactly as loaded.
C11_MatrixUnchanged ==
    MatrixLoaded =>
        /\ DOMAIN matrix = 0..(matrixDimension - 1)
        /\ \A r \in 0..(matrixDimension - 1) :
             \A c \in 0..(matrixDimension - 1) :
               matrix[r][c] = FileElem(r * matrixDimension + c)
        /\ WholeIndex # 0 =>
             /\ Len(output) = WholeIndex + matrixDimension
             /\ \A r \in 0..(matrixDimension - 1) :
                  /\ output[WholeIndex + 1 + r].kind = "row"
                  /\ output[WholeIndex + 1 + r].vals =
                       [c \in 1..matrixDimension |->
                          FileElem(r * matrixDimension + c - 1)]

C11_Witness ==
    /\ pc = "CleanupMatrix"
    /\ WholeIndex # 0
    /\ Len(calls) >= 2
    /\ matrixDimension >= 2
    /\ calls[1].end - calls[1].start >= 1
    /\ fileBase # 0

RowPrints(r) ==
    { k \in 1..Len(output) : output[k].kind = "row" /\ output[k].row = r }

AllWorkersDone == \A t \in DOMAIN workers : workers[t].pc = "done"

\* C13: with the T dispatches run as parallel workers under any
\* interleaving, no row is processed by two different workers, every row
\* 0..N-1 has been processed by exactly one worker once all workers have
\* finished, and the shared matrix is only read.
C13_ParallelDisjoint ==
    pc = "Parallel" =>
        /\ \A j, k \in 1..Len(output) :
             (/\ output[j].kind = "row" /\ output[k].kind = "row"
              /\ output[j].row = output[k].row) =>
                output[j].tid = output[k].tid
        /\ \A r \in 0..(matrixDimension - 1) :
             Cardinality(RowPrints(r)) <= 1
        /\ AllWorkersDone =>
             \A r \in 0..(matrixDimension - 1) :
               Cardinality(RowPrints(r)) = 1
        /\ matrix = LoadMatrix(fileBase, matrixDimension)

C13_Witness ==
    /\ pc = "Parallel"
    /\ AllWorkersDone
    /\ numThreads >= 2
    /\ numThreads < matrixDimension
    /\ matrixDimension % numThreads # 0
    /\ output[1].tid = numThreads - 1
    /\ output[Len(output)].kind = "row"
    /\ output[Len(output)].tid = 0

\* the lines the dispatch loop has printed: those after the three lines
\* main prints before it ("file: ..", "Matrix dimension ..", "Reading ..")
\* and before "Whole Matrix"
DispatchLines ==
    SubSeq(output, 4, IF WholeIndex = 0 THEN Len(output) ELSE WholeIndex - 1)

\* the row indices of the row lines of a sequence of output lines, in order
RowsOf(lines) ==
    LET IsRow(ev) == ev.kind = "row"
        rows == SelectSeq(lines, IsRow)
    IN  [k \in 1..Len(rows) |-> rows[k].row]

HeadersOf(lines) ==
    LET IsHeader(ev) == ev.kind = "header" IN SelectSeq(lines, IsHeader)

Min(a, b) == IF a < b THEN a ELSE b

\* C14: main runs the dispatches one after the other in thread-index order
\* 0, 1, ..., T-1; so for N >= 1 and T >= 1 the rows printed over the whole
\* loop are rows 0, 1, ..., N-1, each once, ascending, with exactly
\* min(N, T) "Thread i of T" headers.
C14_SequentialDispatch ==
    MatrixLoaded =>
        /\ Len(calls) = (IF i > 0 THEN i ELSE 0)
        /\ \A k \in 1..Len(calls) : calls[k].tid = k - 1
        /\ RowsOf(DispatchLines) =
             [k \in 1..Len(RowsOf(DispatchLines)) |-> k - 1]
        /\ \A k \in 1..Len(HeadersOf(DispatchLines)) :
             HeadersOf(DispatchLines)[k].tid = k - 1
        /\ (/\ ~(i < numThreads)
            /\ matrixDimension >= 1 /\ numThreads >= 1) =>
               /\ Len(calls) = numThreads
               /\ RowsOf(DispatchLines) =
                    [k \in 1..matrixDimension |-> k - 1]
               /\ Len(HeadersOf(DispatchLines)) =
                    Min(matrixDimension, numThreads)

C14_Witness ==
    /\ pc = "CleanupMatrix"
    /\ matrixDimension = 3
    /\ numThreads = 2
    /\ Len(calls) = 2
    /\ Len(HeadersOf(DispatchLines)) = 2
    /\ RowsOf(DispatchLines) = <<0, 1, 2>>

\* GetMatrixDimension has returned to main
DimensionKnown == pc = "ReadMatrixFile" \/ MatrixLoaded

\* C15: for a file of s bytes GetMatrixDimension returns the integer square
\* root of floor(s / 4), the largest N with 4*N*N <= s; a file of exactly
\* k*k 4-byte integers gives N = k, and reading N rows of N integers never
\* reads past the end of the file.
C15_DimensionIsIntSqrt ==
    DimensionKnown =>
        LET N == matrixDimension
            words == fileSize \div IntBytes
        IN  /\ N >= 0
            /\ N * N <= words /\ words < (N + 1) * (N + 1)
            /\ IntBytes * N * N <= fileSize
            /\ IntBytes * (N + 1) * (N + 1) > fileSize
            /\ \A k \in 0..fileSize :
                 fileSize = IntBytes * k * k => N = k
            /\ MatrixLoaded =>
                 /\ Cardinality(DOMAIN matrix) * N * IntBytes <= fileSize
                 /\ \A r \in DOMAIN matrix : \A c \in DOMAIN matrix[r] :
                      \E k \in 0..(words - 1) : matrix[r][c] = FileElem(k)

C15_Witness ==
    /\ MatrixLoaded
    /\ matrixDimension = 2
    /\ fileSize = 35
    /\ DOMAIN matrix = 0..1
    /\ matrix[1][1] = FileElem(3)

\* a step of main that prints "Whole Matrix" and the matrix
IsWholePrintStep == WholeIndex = 0 /\ WholeIndex' # 0

AllRows(state) ==
    /\ DOMAIN rowState = 0..(matrixDimension - 1)
    /\ \A r \in DOMAIN rowState : rowState[r] = state

\* C16: in a run that gets past argument checking and file opening, all N
\* rows are allocated and loaded before the first dispatch, every dispatch
\* and the whole-matrix print happen before CleanupMatrix, each allocated
\* row is freed exactly once, and no row is read after it was freed.
C16_MatrixLifecycle ==
    [][/\ (IsDispatchStep \/ IsWholePrintStep) =>
            /\ AllRows("live")
            /\ DOMAIN matrix = 0..(matrixDimension - 1)
       /\ (rowState # <<>> /\ rowState' # rowState) =>
            /\ AllRows("live")
            /\ WholeIndex # 0
            /\ ~(i < numThreads)
            /\ \A r \in DOMAIN rowState : rowState'[r] = "freed"
       /\ (pc' = "exited" /\ exitStatus' = 0) =>
            /\ DOMAIN rowState' = 0..(matrixDimension - 1)
            /\ \A r \in DOMAIN rowState' : rowState'[r] = "freed"
       /\ (\E r \in DOMAIN rowState : rowState[r] # "live") =>
            /\ output' = output
            /\ calls' = calls]_vars

C16_Witness ==
    /\ pc = "exited"
    /\ exitStatus = 0
    /\ matrixDimension >= 2
    /\ Len(calls) >= 2
    /\ WholeIndex # 0
    /\ \A r \in 0..(matrixDimension - 1) : rowState[r] = "freed"

====
